---- MODULE Spec2Model ----
(***************************************************************************)
(* Model of the single-shot V4L2 capture utility (capture-final.c): the    *)
(* run of main() against a capture device whose calls may fail, and the    *)
(* YUYV -> RGB converter yuyv_to_rgb.                                      *)
(*                                                                         *)
(* serial_pwm.c: the serial command loop driving the PWM channel.           *)
(*                                                                         *)
(* Spec        the capture run, one action per call site of main()         *)
(* FairSpec    the capture run in which every call returns                 *)
(* SpecConv    the converter loop on bounded frames                        *)
(* SpecSerial  the run of serial_pwm.c on bounded serial input             *)
(* SpecBoth    a run of either program                                     *)
(***************************************************************************)
EXTENDS Integers, Sequences, FiniteSets, TLC

\* ---------------------------------------------------------------- constants

WIDTH == 320
HEIGHT == 240
\* for(int i=0; i<10; i++)
WarmupFrames == 10
\* stbi_write_jpg("image.jpg", WIDTH, HEIGHT, 3, ...)
Channels == 3

\* How many EINTR returns the device injects into one run (xioctl retries).
MaxEintr == 1

\* Formats the device may apply on VIDIOC_S_FMT (it may coerce the request).
AppliedFormats == {<<WIDTH, HEIGHT>>, <<160, 120>>}

\* Call sites of main(), in program order.
SetupOps == <<"open", "s_fmt", "reqbufs", "querybuf", "mmap", "qbuf_init", "streamon">>
LoopOps == {"select", "dqbuf", "qbuf_loop"}
TailOps == {"malloc", "yuyv_to_rgb", "stbi_write_jpg", "free", "streamoff", "close"}
Ops == {SetupOps[k] : k \in 1..Len(SetupOps)} \cup LoopOps \cup TailOps

\* Program positions at which xioctl is executing.
IoctlPcs == {"s_fmt", "reqbufs", "querybuf", "qbuf_init", "streamon", "dqbuf", "qbuf_loop", "streamoff"}

VARIABLES
  \* ---- capture-final.c main(): program state
  pc,            \* call site about to execute, "exit" after return, "idle" when not run
  i,             \* loop counter of the warm-up loop
  fd,            \* device handle, -1 before open
  fmt,           \* <<width, height>> as written back by VIDIOC_S_FMT
  buf,           \* struct v4l2_buffer: [length, bytesused]
  buffer_start,  \* "unset", "mapped"
  rgb_data,      \* "unset", "allocated", "freed"
  ret,           \* exit status of main, -1 while running
  out,           \* messages written by perror/printf
  \* ---- the device
  queued,        \* the buffer is in the driver's incoming queue (device owns it)
  streaming,     \* stream-on is in effect
  \* ---- history of the run
  cnt,           \* per call site: number of times it was called
  failed,        \* call sites that returned failure
  waitFailedAt,  \* k when the k-th select failed, 0 otherwise
  dblQueue,      \* a queue ioctl was issued while the buffer was queued
  pair,          \* pairing of the latest successful dequeue: "none","open","requeued","torn"
  lastDq,        \* result of the latest VIDIOC_DQBUF: "none","ok","err"
  convInfo,      \* what the converter was called with, and the buffer's state then
  encArgs,       \* <<width, height, channels>> given to the encoder, <<>> if never
  nEintr,        \* EINTR returns so far
  \* ---- yuyv_to_rgb
  cpc,           \* "idle", "loop", "done", "fault"
  width, height, \* arguments
  yuyv,          \* input bytes, indices 0 .. 2*width*height-1
  rgb,           \* output memory, -1 where never written
  ci, cj,        \* loop indices i and j
  rd,            \* input indices read
  wr,            \* per output index: number of writes
  grp,           \* per processed group: the bytes read <<y0,u,y1,v>>
  \* ---- serial_pwm.c: program state
  spc,           \* position in main(), "exit" after return, "idle" when not run
  keep_running,  \* static volatile int keep_running
  handler,       \* int_handler is installed for SIGINT / SIGTERM
  sfd,           \* serial port handle, -1 before open
  sbuf,          \* buf[0 .. n-1]: the chunk the last read returned
  si,            \* index i of the for loop over the chunk
  pwmRet,        \* what pwm_init returned (0 or -1), 1 before it returns
  sret,          \* exit code of main, -1 before
  \* ---- serial_pwm.c: the environment and what the run did to it
  wire,          \* bytes on the serial line not read yet
  portOpen,      \* the serial port is open
  enabled,       \* the PWM channel's enable state
  sysfs,         \* pwm_write_file calls in order: [file, value, res]
  motor,         \* pwm_control calls in order: TRUE for 1, FALSE for 0
  echo,          \* what was echoed to the console, in order
  taken,         \* every byte read returned, in order
  chunks,        \* length of each chunk read returned, in order
  lastRead,      \* outcome of the read of this iteration, "none" before it
  warned,        \* the monitor-only warning was printed
  sigAt          \* <<position, i>> at which the first signal arrived, <<>> before

capVars == <<pc, i, fd, fmt, buf, buffer_start, rgb_data, ret, out, queued, streaming,
             cnt, failed, waitFailedAt, dblQueue, pair, lastDq, convInfo, encArgs, nEintr>>
convVars == <<cpc, width, height, yuyv, rgb, ci, cj, rd, wr, grp>>
serVars == <<spc, keep_running, handler, sfd, sbuf, si, pwmRet, sret, wire, portOpen,
             enabled, sysfs, motor, echo, taken, chunks, lastRead, warned, sigAt>>
vars == <<capVars, convVars, serVars>>

\* ------------------------------------------------------------ capture run

ConvIdle ==
  /\ cpc = "idle" /\ width = 0 /\ height = 0 /\ yuyv = <<>> /\ rgb = <<>>
  /\ ci = 0 /\ cj = 0 /\ rd = {} /\ wr = <<>> /\ grp = <<>>

\* serial_pwm.c is not running.
SerStart(at) ==
  /\ spc = at /\ keep_running = 1 /\ handler = FALSE /\ sfd = -1
  /\ sbuf = <<>> /\ si = 0 /\ pwmRet = 1 /\ sret = -1
  /\ portOpen = FALSE
  /\ sysfs = <<>> /\ motor = <<>> /\ echo = <<>> /\ taken = <<>> /\ chunks = <<>>
  /\ lastRead = "none" /\ warned = FALSE /\ sigAt = <<>>

SerIdle == SerStart("idle") /\ wire = <<>> /\ enabled = FALSE

\* main() before its first statement, on a device nothing has touched yet.
CapStart(at) ==
  /\ pc = at /\ i = 0 /\ fd = -1
  /\ fmt = <<WIDTH, HEIGHT>>
  /\ buf = [length |-> 0, bytesused |-> 0]
  /\ buffer_start = "unset" /\ rgb_data = "unset"
  /\ ret = -1 /\ out = {}
  /\ queued = FALSE /\ streaming = FALSE
  /\ cnt = [o \in Ops |-> 0]
  /\ failed = {}
  /\ waitFailedAt = 0 /\ dblQueue = FALSE /\ pair = "none" /\ lastDq = "none"
  /\ convInfo = <<>> /\ encArgs = <<>>
  /\ nEintr = 0

Init == CapStart("open") /\ ConvIdle /\ SerIdle

Call(op) == cnt' = [cnt EXCEPT ![op] = @ + 1]

\* History: the call at site op returned failure (bad) or not.
Returned(op, bad) == failed' = IF bad THEN failed \cup {op} ELSE failed

\* perror(msg); return 1;
Abort(msg) ==
  /\ out' = out \cup {msg}
  /\ ret' = 1
  /\ pc' = "exit"

\* xioctl: the ioctl returned -1 with errno EINTR and is issued again.
XioctlEintr ==
  /\ pc \in IoctlPcs
  /\ nEintr < MaxEintr
  /\ nEintr' = nEintr + 1
  /\ UNCHANGED <<pc, i, fd, fmt, buf, buffer_start, rgb_data, ret, out, queued, streaming,
                 cnt, failed, waitFailedAt, dblQueue, pair, lastDq, convInfo, encArgs>>
  /\ UNCHANGED <<convVars, serVars>>

\* if (fd < 0)
OpenFailed(h) == h < 0

\* if (xioctl(...) < 0)
XioctlFailed_Positive(r) == r > 0
XioctlFailed(r) == r < 0

\* if (buffer_start == MAP_FAILED)
MapFailed(p) == p = "MAP_FAILED"

\* if (r <= 0)
SelectFailed_ErrorOnly(r) == r < 0
SelectFailed(r) == r <= 0

\* if (i < 9)
RequeueWanted_OneShort(k) == k < 8
RequeueWanted_Always(k) == k < 10
RequeueWanted(k) == k < 9

\* if (buf.bytesused > 0)
FrameUsable_OrEmpty(b) == b >= 0
FrameUsable(b) == b > 0

\* if (!rgb_data)
MallocFailed(p) == p = "NULL"

Open ==
  /\ pc = "open"
  /\ Call("open")
  /\ \E h \in {3, -1} :
       /\ fd' = h
       /\ Returned("open", h < 0)
       /\ IF OpenFailed(h)
            THEN Abort("Opening video0")
            ELSE pc' = "s_fmt" /\ UNCHANGED <<out, ret>>
  /\ UNCHANGED <<i, fmt, buf, buffer_start, rgb_data, queued, streaming,
                 waitFailedAt, dblQueue, pair, lastDq, convInfo, encArgs, nEintr>>
  /\ UNCHANGED <<convVars, serVars>>

\* On success the driver writes the applied format back into fmt.
SetFormat ==
  /\ pc = "s_fmt"
  /\ Call("s_fmt")
  /\ \E r \in {0, -1} :
       /\ Returned("s_fmt", r # 0)
       /\ IF r = 0 THEN \E f \in AppliedFormats : fmt' = f ELSE UNCHANGED fmt
       /\ IF XioctlFailed(r)
            THEN Abort("Setting Pixel Format")
            ELSE /\ out' = out \cup {"Camera configured"}
                 /\ pc' = "reqbufs"
                 /\ UNCHANGED ret
  /\ UNCHANGED <<i, fd, buf, buffer_start, rgb_data, queued, streaming,
                 waitFailedAt, dblQueue, pair, lastDq, convInfo, encArgs, nEintr>>
  /\ UNCHANGED <<convVars, serVars>>

RequestBuffers ==
  /\ pc = "reqbufs"
  /\ Call("reqbufs")
  /\ \E r \in {0, -1} :
       /\ Returned("reqbufs", r # 0)
       /\ IF XioctlFailed(r)
            THEN Abort("Requesting Buffer")
            ELSE pc' = "querybuf" /\ UNCHANGED <<out, ret>>
  /\ UNCHANGED <<i, fd, fmt, buf, buffer_start, rgb_data, queued, streaming,
                 waitFailedAt, dblQueue, pair, lastDq, convInfo, encArgs, nEintr>>
  /\ UNCHANGED <<convVars, serVars>>

\* On success the driver reports the buffer's length: one frame of the
\* applied format.
QueryBuffer ==
  /\ pc = "querybuf"
  /\ Call("querybuf")
  /\ \E r \in {0, -1} :
       /\ Returned("querybuf", r # 0)
       /\ IF r = 0
            THEN buf' = [buf EXCEPT !.length = fmt[1] * fmt[2] * 2]
            ELSE UNCHANGED buf
       /\ IF XioctlFailed(r)
            THEN Abort("Querying Buffer")
            ELSE pc' = "mmap" /\ UNCHANGED <<out, ret>>
  /\ UNCHANGED <<i, fd, fmt, buffer_start, rgb_data, queued, streaming,
                 waitFailedAt, dblQueue, pair, lastDq, convInfo, encArgs, nEintr>>
  /\ UNCHANGED <<convVars, serVars>>

MapBuffer ==
  /\ pc = "mmap"
  /\ Call("mmap")
  /\ \E p \in {"mapped", "MAP_FAILED"} :
       /\ buffer_start' = p
       /\ Returned("mmap", p = "MAP_FAILED")
       /\ IF MapFailed(p)
            THEN Abort("Mapping Buffer")
            ELSE pc' = "qbuf_init" /\ UNCHANGED <<out, ret>>
  /\ UNCHANGED <<i, fd, fmt, buf, rgb_data, queued, streaming,
                 waitFailedAt, dblQueue, pair, lastDq, convInfo, encArgs, nEintr>>
  /\ UNCHANGED <<convVars, serVars>>

\* VIDIOC_QBUF as the driver sees it. It can succeed (r = 0) only on a buffer
\* that is not queued, and on success the driver writes the struct back (it
\* may reset bytesused); on failure the struct is left as it was.
DevQueue(r) ==
  IF r = 0
    THEN /\ ~queued
         /\ queued' = TRUE
         /\ \E b \in {buf.bytesused, 0} : buf' = [buf EXCEPT !.bytesused = b]
    ELSE UNCHANGED <<queued, buf>>

\* VIDIOC_DQBUF as the driver sees it. It can succeed only while streaming
\* with the buffer queued; the driver then hands the buffer back and reports
\* the bytes it filled (possibly none). On failure the struct is left as it was.
DevDequeue(r) ==
  IF r = 0
    THEN /\ queued /\ streaming
         /\ queued' = FALSE
         /\ \E b \in {buf.length, 0} : buf' = [buf EXCEPT !.bytesused = b]
    ELSE UNCHANGED <<queued, buf>>

QueueInitial ==
  /\ pc = "qbuf_init"
  /\ Call("qbuf_init")
  /\ dblQueue' = (dblQueue \/ queued)
  /\ \E r \in {0, -1} :
       /\ Returned("qbuf_init", r # 0)
       /\ DevQueue(r)
       /\ IF XioctlFailed(r)
            THEN Abort("Queueing Buffer")
            ELSE pc' = "streamon" /\ UNCHANGED <<out, ret>>
  /\ UNCHANGED <<i, fd, fmt, buffer_start, rgb_data, streaming,
                 waitFailedAt, pair, lastDq, convInfo, encArgs, nEintr>>
  /\ UNCHANGED <<convVars, serVars>>

StreamOn ==
  /\ pc = "streamon"
  /\ Call("streamon")
  /\ \E r \in {0, -1} :
       /\ Returned("streamon", r # 0)
       /\ streaming' = (r = 0)
       /\ IF XioctlFailed(r)
            THEN Abort("Start Capture")
            ELSE /\ out' = out \cup {"Warming up camera..."}
                 /\ pc' = "select"
                 /\ UNCHANGED ret
  /\ UNCHANGED <<i, fd, fmt, buf, buffer_start, rgb_data, queued,
                 waitFailedAt, dblQueue, pair, lastDq, convInfo, encArgs, nEintr>>
  /\ UNCHANGED <<convVars, serVars>>

\* i++ and the loop test i < 10
NextIteration_OneMore ==
  /\ i' = i + 1
  /\ pc' = IF i + 1 <= WarmupFrames THEN "select" ELSE "check"
NextIteration ==
  /\ i' = i + 1
  /\ pc' = IF i + 1 < WarmupFrames THEN "select" ELSE "check"

\* r = select(fd + 1, &fds, NULL, NULL, &tv): ready (1), timeout (0), error (-1)
Select ==
  /\ pc = "select"
  /\ Call("select")
  /\ \E r \in {1, 0, -1} :
       /\ Returned("select", r <= 0)
       /\ waitFailedAt' = IF r <= 0 THEN i + 1 ELSE waitFailedAt
       /\ IF SelectFailed(r)
            THEN Abort("Timeout waiting for frame")
            ELSE pc' = "dqbuf" /\ UNCHANGED <<out, ret>>
  /\ UNCHANGED <<i, fd, fmt, buf, buffer_start, rgb_data, queued, streaming,
                 dblQueue, pair, lastDq, convInfo, encArgs, nEintr>>
  /\ UNCHANGED <<convVars, serVars>>

\* xioctl(fd, VIDIOC_DQBUF, &buf): the result is not looked at.
Dequeue ==
  /\ pc = "dqbuf"
  /\ Call("dqbuf")
  /\ \E r \in {0, -1} :
       /\ DevDequeue(r)
       /\ lastDq' = IF r = 0 THEN "ok" ELSE "err"
       /\ pair' = IF r = 0 THEN "open" ELSE pair
       /\ Returned("dqbuf", r # 0)
  /\ IF RequeueWanted(i)
       THEN pc' = "qbuf_loop" /\ UNCHANGED i
       ELSE NextIteration
  /\ UNCHANGED <<fd, fmt, buffer_start, rgb_data, ret, out, streaming,
                 waitFailedAt, dblQueue, convInfo, encArgs, nEintr>>
  /\ UNCHANGED <<convVars, serVars>>

\* xioctl(fd, VIDIOC_QBUF, &buf) in the loop: the result is not looked at.
Requeue ==
  /\ pc = "qbuf_loop"
  /\ Call("qbuf_loop")
  /\ dblQueue' = (dblQueue \/ queued)
  /\ pair' = IF pair = "open" THEN "requeued" ELSE pair
  /\ \E r \in {0, -1} :
       /\ DevQueue(r)
       /\ Returned("qbuf_loop", r # 0)
  /\ NextIteration
  /\ UNCHANGED <<fd, fmt, buffer_start, rgb_data, ret, out, streaming,
                 waitFailedAt, lastDq, convInfo, encArgs, nEintr>>
  /\ UNCHANGED <<convVars, serVars>>

CheckFrame ==
  /\ pc = "check"
  /\ IF FrameUsable(buf.bytesused)
       THEN /\ out' = out \cup {"Captured Raw Frame"}
            /\ pc' = "malloc"
       ELSE /\ out' = out \cup {"Error: Captured 0 bytes"}
            /\ pc' = "streamoff"
  /\ UNCHANGED <<i, fd, fmt, buf, buffer_start, rgb_data, ret, queued, streaming,
                 cnt, failed, waitFailedAt, dblQueue, pair, lastDq, convInfo, encArgs, nEintr>>
  /\ UNCHANGED <<convVars, serVars>>

Malloc ==
  /\ pc = "malloc"
  /\ Call("malloc")
  /\ \E p \in {"allocated", "NULL"} :
       /\ rgb_data' = p
       /\ Returned("malloc", p = "NULL")
       /\ IF MallocFailed(p)
            THEN Abort("Malloc failed")
            ELSE pc' = "yuyv_to_rgb" /\ UNCHANGED <<out, ret>>
  /\ UNCHANGED <<i, fd, fmt, buf, buffer_start, queued, streaming,
                 waitFailedAt, dblQueue, pair, lastDq, convInfo, encArgs, nEintr>>
  /\ UNCHANGED <<convVars, serVars>>

\* yuyv_to_rgb((uint8_t*)buffer_start, rgb_data, WIDTH, HEIGHT)
Convert ==
  /\ pc = "yuyv_to_rgb"
  /\ Call("yuyv_to_rgb")
  /\ convInfo' = [w |-> WIDTH, h |-> HEIGHT, frame |-> cnt["dqbuf"],
                  lastDq |-> lastDq, deviceOwns |-> queued]
  /\ pc' = "stbi_write_jpg"
  /\ UNCHANGED <<i, fd, fmt, buf, buffer_start, rgb_data, ret, out, queued, streaming,
                 failed, waitFailedAt, dblQueue, pair, lastDq, encArgs, nEintr>>
  /\ UNCHANGED <<convVars, serVars>>

\* stbi_write_jpg("image.jpg", WIDTH, HEIGHT, 3, rgb_data, QUALITY): 1 or 0
Encode ==
  /\ pc = "stbi_write_jpg"
  /\ Call("stbi_write_jpg")
  /\ encArgs' = <<WIDTH, HEIGHT, Channels>>
  /\ \E ok \in BOOLEAN :
       /\ Returned("stbi_write_jpg", ~ok)
       /\ out' = out \cup {IF ok THEN "Success! Saved as image.jpg"
                                  ELSE "Error: Failed to write JPEG file."}
  /\ pc' = "free"
  /\ UNCHANGED <<i, fd, fmt, buf, buffer_start, rgb_data, ret, queued, streaming,
                 waitFailedAt, dblQueue, pair, lastDq, convInfo, nEintr>>
  /\ UNCHANGED <<convVars, serVars>>

Free ==
  /\ pc = "free"
  /\ Call("free")
  /\ rgb_data' = "freed"
  /\ pc' = "streamoff"
  /\ UNCHANGED <<i, fd, fmt, buf, buffer_start, ret, out, queued, streaming,
                 failed, waitFailedAt, dblQueue, pair, lastDq, convInfo, encArgs, nEintr>>
  /\ UNCHANGED <<convVars, serVars>>

\* xioctl(fd, VIDIOC_STREAMOFF, &type): the result is not looked at. On
\* success the driver stops streaming and drops the buffer from its queue.
StreamOff ==
  /\ pc = "streamoff"
  /\ Call("streamoff")
  /\ \E r \in {0, -1} :
       /\ IF r = 0
            THEN streaming' = FALSE /\ queued' = FALSE
            ELSE UNCHANGED <<streaming, queued>>
       /\ Returned("streamoff", r # 0)
  /\ pair' = IF pair = "open" THEN "torn" ELSE pair
  /\ pc' = "close"
  /\ UNCHANGED <<i, fd, fmt, buf, buffer_start, rgb_data, ret, out,
                 waitFailedAt, dblQueue, lastDq, convInfo, encArgs, nEintr>>
  /\ UNCHANGED <<convVars, serVars>>

\* close(fd); return 0;
Close ==
  /\ pc = "close"
  /\ Call("close")
  /\ fd' = -1
  /\ ret' = 0
  /\ pc' = "exit"
  /\ UNCHANGED <<i, fmt, buf, buffer_start, rgb_data, out, queued, streaming,
                 failed, waitFailedAt, dblQueue, pair, lastDq, convInfo, encArgs, nEintr>>
  /\ UNCHANGED <<convVars, serVars>>

Next ==
  \/ XioctlEintr
  \/ Open \/ SetFormat \/ RequestBuffers \/ QueryBuffer \/ MapBuffer
  \/ QueueInitial \/ StreamOn
  \/ Select \/ Dequeue \/ Requeue
  \/ CheckFrame \/ Malloc \/ Convert \/ Encode \/ Free
  \/ StreamOff \/ Close

Spec == Init /\ [][Next]_vars

\* Every call main makes returns: select after at most its 2 s timeout, and
\* each ioctl, once it stops failing with EINTR, with its result. Progress is
\* every step but the EINTR retry inside xioctl.
Progress ==
  \/ Open \/ SetFormat \/ RequestBuffers \/ QueryBuffer \/ MapBuffer
  \/ QueueInitial \/ StreamOn
  \/ Select \/ Dequeue \/ Requeue
  \/ CheckFrame \/ Malloc \/ Convert \/ Encode \/ Free
  \/ StreamOff \/ Close

FairSpec == Spec /\ WF_vars(Progress)

\* ------------------------------------------------------------ yuyv_to_rgb

\* Largest width and height of the frames the converter is run on.
MaxDim == 2

\* Byte values the frames are built from: the extremes, the neutral midpoint,
\* and bytes whose centred chroma is +100 / -100.
ByteSamples == {0, 28, 128, 222, 228, 255}

\* Added to each byte per 4-byte group, so that groups differ.
GroupShift == 37

\* First groups with neutral chroma (U = V = 128) and every luma 0..255.
NeutralGroups ==
  {[k \in 0..3 |-> IF k = 0 THEN y ELSE IF k = 2 THEN 255 - y ELSE 128] : y \in 0..255}

\* int pixel_count = width * height;
pixel_count == width * height

\* Number of iterations of for (i = 0; i < pixel_count * 2; i += 4)
Iterations(w, h) == (2 * w * h + 3) \div 4

InitConv ==
  /\ CapStart("idle") /\ SerIdle
  /\ cpc = "loop"
  /\ width \in 1..MaxDim /\ height \in 1..MaxDim
  /\ \E base \in [0..3 -> ByteSamples] \cup NeutralGroups :
       yuyv = [k \in 0..(2 * width * height - 1) |->
                 (base[k % 4] + GroupShift * (k \div 4)) % 256]
  /\ rgb = [k \in 0..(6 * Iterations(width, height) - 1) |-> -1]
  /\ wr = [k \in 0..(6 * Iterations(width, height) - 1) |-> 0]
  /\ ci = 0 /\ cj = 0 /\ rd = {} /\ grp = <<>>

\* static inline uint8_t clamp(int v)
clamp_Wrap(v) == v % 256
clamp(v) == IF v < 0 THEN 0 ELSE IF v > 255 THEN 255 ELSE v % 256

\* ---- double arithmetic (IEEE 754 binary64, round to nearest, ties to even)
\*
\* Every double that the converter computes is a multiple of 2^-54 below 2^9
\* in magnitude. A double is modelled exactly, as [neg, mag] with mag its
\* magnitude in units of 2^-54, written in three limbs <<a, b, c>> of 21 bits:
\* mag = a * 2^42 + b * 2^21 + c.

LimbBase == 2^21

\* The literals, as the compiler stores them.
\* 1.402    = 0x1.66e978d4fdf3bp+0
Coef_1_402 == <<5742, 1241513, 2063596>>
\* 0.344136 = 0x1.6065300581494p-2
Coef_0_344136 == <<1409, 1218562, 1578132>>
\* 0.714136 = 0x1.6da33bd9cae21p-1
Coef_0_714136 == <<2925, 211929, 1662018>>
\* 1.772    = 0x1.c5a1cac083127p+0
Coef_1_772 == <<7258, 234881, 50332>>

\* Carries propagated: limbs brought back below LimbBase.
Carry(a, b, c) ==
  LET b1 == b + c \div LimbBase
  IN  <<a + b1 \div LimbBase, b1 % LimbBase, c % LimbBase>>

MulMag(m, k) == Carry(m[1] * k, m[2] * k, m[3] * k)
AddMag(x, y) == Carry(x[1] + y[1], x[2] + y[2], x[3] + y[3])
LessMag(x, y) ==
  \/ x[1] < y[1]
  \/ x[1] = y[1] /\ x[2] < y[2]
  \/ x[1] = y[1] /\ x[2] = y[2] /\ x[3] < y[3]
\* x - y for x >= y, with borrows.
SubMag(x, y) ==
  LET c  == x[3] - y[3]
      bc == IF c < 0 THEN 1 ELSE 0
      b  == x[2] - y[2] - bc
      bb == IF b < 0 THEN 1 ELSE 0
  IN  <<x[1] - y[1] - bb, b + bb * LimbBase, c + bc * LimbBase>>

\* Number of significant bits.
BitLen(n) == IF n = 0 THEN 0 ELSE CHOOSE k \in 1..31 : 2^(k-1) <= n /\ (k = 31 \/ n < 2^k)
MagBits(m) ==
  IF m[1] > 0 THEN 42 + BitLen(m[1])
  ELSE IF m[2] > 0 THEN 21 + BitLen(m[2])
  ELSE BitLen(m[3])

\* The exact magnitude m rounded to 53 significant bits.
RoundMag(m) ==
  IF MagBits(m) <= 53 THEN m
  ELSE LET p    == 2^(MagBits(m) - 53)
           rem  == m[3] % p
           down == <<m[1], m[2], m[3] - rem>>
           up   == Carry(m[1], m[2], m[3] - rem + p)
           even == (m[3] \div p) % 2 = 0
       IN  IF 2 * rem < p THEN down
           ELSE IF 2 * rem > p THEN up
           ELSE IF even THEN down ELSE up

\* (double) of an int
DoubleOfInt(n) ==
  [neg |-> n < 0, mag |-> <<(IF n < 0 THEN -n ELSE n) * 2^12, 0, 0>>]

\* coef * (double)k
DoubleMul(coef, k) ==
  [neg |-> k < 0, mag |-> RoundMag(MulMag(coef, IF k < 0 THEN -k ELSE k))]

\* x + y
DoubleAdd(x, y) ==
  IF x.neg = y.neg THEN [neg |-> x.neg, mag |-> RoundMag(AddMag(x.mag, y.mag))]
  ELSE IF LessMag(x.mag, y.mag)
         THEN [neg |-> y.neg, mag |-> RoundMag(SubMag(y.mag, x.mag))]
         ELSE [neg |-> x.neg, mag |-> RoundMag(SubMag(x.mag, y.mag))]

\* x - y
DoubleSub(x, y) == DoubleAdd(x, [neg |-> ~y.neg, mag |-> y.mag])

\* (int) of a double: truncation toward zero.
IntOfDouble(x) ==
  LET q == x.mag[1] \div 2^12 IN IF x.neg THEN -q ELSE q

\* r = y + (1.402 * v);
ChannelR_Uncentred(y, v) ==
  IntOfDouble(DoubleAdd(DoubleOfInt(y), DoubleMul(Coef_1_402, v + 128)))
ChannelR(y, v) == IntOfDouble(DoubleAdd(DoubleOfInt(y), DoubleMul(Coef_1_402, v)))
\* g = y - (0.344136 * u) - (0.714136 * v);
ChannelG(y, u, v) ==
  IntOfDouble(DoubleSub(DoubleSub(DoubleOfInt(y), DoubleMul(Coef_0_344136, u)),
                        DoubleMul(Coef_0_714136, v)))
\* b = y + (1.772 * u);
ChannelB(y, u) == IntOfDouble(DoubleAdd(DoubleOfInt(y), DoubleMul(Coef_1_772, u)))

\* yuyv[k]: inside the input the byte stored there; past its end whatever
\* byte lies behind the buffer.
ReadYuyv_Swapped(k) ==
  LET s == IF k % 2 = 0 THEN k + 1 ELSE k - 1
  IN  IF s \in DOMAIN yuyv THEN {yuyv[s]} ELSE ByteSamples
ReadYuyv(k) == IF k \in DOMAIN yuyv THEN {yuyv[k]} ELSE ByteSamples

\* One iteration of the loop body.
ConvStep ==
  /\ cpc = "loop"
  /\ ci < pixel_count * 2
  /\ \E y0 \in ReadYuyv(ci), ub \in ReadYuyv(ci + 1),
        y1 \in ReadYuyv(ci + 2), vb \in ReadYuyv(ci + 3) :
       LET u == ub - 128
           v == vb - 128
       IN  /\ grp' = Append(grp, <<y0, ub, y1, vb>>)
           /\ rgb' = [k \in DOMAIN rgb |->
                        IF k = cj THEN clamp(ChannelR(y0, v))
                        ELSE IF k = cj + 1 THEN clamp(ChannelG(y0, u, v))
                        ELSE IF k = cj + 2 THEN clamp(ChannelB(y0, u))
                        ELSE IF k = cj + 3 THEN clamp(ChannelR(y1, v))
                        ELSE IF k = cj + 4 THEN clamp(ChannelG(y1, u, v))
                        ELSE IF k = cj + 5 THEN clamp(ChannelB(y1, u))
                        ELSE rgb[k]]
  /\ rd' = rd \cup (ci..(ci + 3))
  /\ wr' = [k \in DOMAIN wr |-> IF k \in cj..(cj + 5) THEN wr[k] + 1 ELSE wr[k]]
  /\ ci' = ci + 4
  /\ cj' = cj + 6
  /\ UNCHANGED <<cpc, width, height, yuyv>>
  /\ UNCHANGED <<capVars, serVars>>

\* An access past the end of a buffer may instead end the process.
ConvFault ==
  /\ cpc = "loop"
  /\ ci < pixel_count * 2
  /\ ci + 3 >= pixel_count * 2
  /\ cpc' = "fault"
  /\ UNCHANGED <<width, height, yuyv, rgb, ci, cj, rd, wr, grp>>
  /\ UNCHANGED <<capVars, serVars>>

\* The loop test fails: the function returns.
ConvReturn ==
  /\ cpc = "loop"
  /\ ~(ci < pixel_count * 2)
  /\ cpc' = "done"
  /\ UNCHANGED <<width, height, yuyv, rgb, ci, cj, rd, wr, grp>>
  /\ UNCHANGED <<capVars, serVars>>

NextConv == ConvStep \/ ConvFault \/ ConvReturn

SpecConv == InitConv /\ [][NextConv]_vars

\* ------------------------------------------------------------ serial_pwm.c

PWM_CHANNEL == 0
PWM_PERIOD_NS == 1000000
PWM_DUTY_NS == 500000
\* unsigned char buf[256]
BufSize == 256

\* Longest serial input, the scenario input apart.
MaxInput == 2

\* Bytes on the line: the four command bytes and a printable byte that is no
\* command; two longer inputs, one of them with a control byte (BEL) that is
\* not printable.
Bytes == {"A", "a", "B", "b", "x"}
Scenario == <<"x", "A", "1", "B", "z">>
Inputs ==
  UNION {[1..n -> Bytes] : n \in 0..MaxInput} \cup {Scenario, <<"b", "BEL", "a">>}

\* isprint(c) || c == '\n' || c == '\r' || c == '\t'
Echoable(c) == c \in {"A", "a", "B", "b", "x", "1", "z"}

\* main() of serial_pwm.c before its first statement.
InitSerial ==
  /\ CapStart("idle") /\ ConvIdle
  /\ SerStart("export")
  /\ wire \in Inputs
  /\ enabled \in BOOLEAN

\* pwm_write_file(filename, value): what happened to the file. "written":
\* open and write succeeded; "busy": open failed with EBUSY; "error": open
\* failed otherwise, or write failed.
WriteResults == {"written", "busy", "error"}

\* The results the channel's enable file gives.
EnableResults == {"written", "error"}

\* The value pwm_write_file returns.
PwmWriteRet(file, res) ==
  IF res = "written" THEN 0
  ELSE IF res = "busy" /\ file = "export" THEN 0
  ELSE -1

\* The call's effect on the PWM channel and on the record of calls.
PwmWrite(file, value, res) ==
  /\ sysfs' = Append(sysfs, [file |-> file, value |-> value, res |-> res])
  /\ enabled' = IF file = "enable" /\ res = "written" THEN value = 1 ELSE enabled

\* pwm_init: pwm_write_file("export", "0"); the result is not used.
PwmExport ==
  /\ spc = "export"
  /\ \E res \in WriteResults : PwmWrite("export", PWM_CHANNEL, res)
  /\ spc' = "period"
  /\ UNCHANGED <<keep_running, handler, sfd, sbuf, si, pwmRet, sret, wire, portOpen,
                 motor, echo, taken, chunks, lastRead, warned>>
  /\ UNCHANGED <<sigAt, capVars, convVars>>

\* main: if (pwm_init() != 0) the warning is printed and main goes on.
InitReturns(r) ==
  /\ pwmRet' = r
  /\ warned' = (r # 0)
  /\ spc' = "open"

\* pwm_init: if (pwm_write_file("period", "1000000") != 0) return -1;
PwmPeriod ==
  /\ spc = "period"
  /\ \E res \in WriteResults :
       /\ PwmWrite("period", PWM_PERIOD_NS, res)
       /\ IF PwmWriteRet("period", res) # 0
            THEN InitReturns(-1)
            ELSE spc' = "duty_cycle" /\ UNCHANGED <<pwmRet, warned>>
  /\ UNCHANGED <<keep_running, handler, sfd, sbuf, si, sret, wire, portOpen,
                 motor, echo, taken, chunks, lastRead>>
  /\ UNCHANGED <<sigAt, capVars, convVars>>

\* pwm_init: if (pwm_write_file("duty_cycle", "500000") != 0) return -1;
PwmDuty ==
  /\ spc = "duty_cycle"
  /\ \E res \in WriteResults :
       /\ PwmWrite("duty_cycle", PWM_DUTY_NS, res)
       /\ IF PwmWriteRet("duty_cycle", res) # 0
            THEN InitReturns(-1)
            ELSE spc' = "disable" /\ UNCHANGED <<pwmRet, warned>>
  /\ UNCHANGED <<keep_running, handler, sfd, sbuf, si, sret, wire, portOpen,
                 motor, echo, taken, chunks, lastRead>>
  /\ UNCHANGED <<sigAt, capVars, convVars>>

\* pwm_init: pwm_write_file("enable", "0"), result not used; return 0.
PwmDisable ==
  /\ spc = "disable"
  /\ \E res \in EnableResults : PwmWrite("enable", 0, res)
  /\ InitReturns(0)
  /\ UNCHANGED <<keep_running, handler, sfd, sbuf, si, sret, wire, portOpen,
                 motor, echo, taken, chunks, lastRead>>
  /\ UNCHANGED <<sigAt, capVars, convVars>>

\* fd = open(dev, ...); if (fd < 0) return 2;
OpenSerial ==
  /\ spc = "open"
  /\ \E h \in {3, -1} :
       /\ sfd' = h
       /\ portOpen' = (h >= 0)
       /\ IF h < 0
            THEN sret' = 2 /\ spc' = "exit"
            ELSE spc' = "configure" /\ UNCHANGED sret
  /\ UNCHANGED <<keep_running, handler, sbuf, si, pwmRet, wire,
                 enabled, sysfs, motor, echo, taken, chunks, lastRead, warned>>
  /\ UNCHANGED <<sigAt, capVars, convVars>>

\* { close(fd); return 3; }
ConfigureFailure_Leak == sret' = 3 /\ spc' = "exit" /\ UNCHANGED portOpen
ConfigureFailure == portOpen' = FALSE /\ sret' = 3 /\ spc' = "exit"

\* if (configure_serial(fd, baud) != 0) { close(fd); return 3; }
\* then signal(SIGINT, int_handler); signal(SIGTERM, int_handler);
ConfigureSerial ==
  /\ spc = "configure"
  /\ \E r \in {0, -1} :
       IF r # 0
         THEN /\ ConfigureFailure
              /\ UNCHANGED handler
         ELSE /\ handler' = TRUE /\ spc' = "while"
              /\ UNCHANGED <<portOpen, sret>>
  /\ UNCHANGED <<keep_running, sfd, sbuf, si, pwmRet, wire,
                 enabled, sysfs, motor, echo, taken, chunks, lastRead, warned>>
  /\ UNCHANGED <<sigAt, capVars, convVars>>

\* while (keep_running)
LoopTest ==
  /\ spc = "while"
  /\ lastRead' = "none"
  /\ spc' = IF keep_running # 0 THEN "read" ELSE "close"
  /\ UNCHANGED <<keep_running, handler, sfd, sbuf, si, pwmRet, sret, wire, portOpen,
                 enabled, sysfs, motor, echo, taken, chunks, warned>>
  /\ UNCHANGED <<sigAt, capVars, convVars>>

\* if (errno == EINTR) continue; perror("read"); break;
ReadRetry_Never(e) == FALSE
ReadRetry(e) == e = "EINTR"

\* read returned n < 0 with errno e.
ReadFailed(e) ==
  /\ lastRead' = e
  /\ spc' = IF ReadRetry(e) THEN "while" ELSE "close"

\* n = read(fd, buf, sizeof(buf)) returns n > 0: the first n bytes on the line.
ReadData ==
  /\ spc = "read"
  /\ \E n \in 1..Len(wire) :
       /\ n <= BufSize
       /\ sbuf' = SubSeq(wire, 1, n)
       /\ wire' = SubSeq(wire, n + 1, Len(wire))
       /\ taken' = taken \o SubSeq(wire, 1, n)
       /\ chunks' = Append(chunks, n)
  /\ si' = 0
  /\ lastRead' = "data"
  /\ spc' = "for"
  /\ UNCHANGED <<keep_running, handler, sfd, pwmRet, sret, portOpen,
                 enabled, sysfs, motor, echo, warned>>
  /\ UNCHANGED <<sigAt, capVars, convVars>>

\* read returns 0 (else if (n == 0) continue;) or -1 with an errno that is
\* not EINTR.
ReadEmptyOrError ==
  /\ spc = "read"
  /\ \/ lastRead' = "zero" /\ spc' = "while"
     \/ ReadFailed("EIO")
  /\ UNCHANGED <<keep_running, handler, sfd, sbuf, si, pwmRet, sret, wire, portOpen,
                 enabled, sysfs, motor, echo, taken, chunks, warned>>
  /\ UNCHANGED <<sigAt, capVars, convVars>>

\* A signal arrives while read is blocked; int_handler runs and read returns
\* -1 with errno EINTR.
ReadInterrupted ==
  /\ spc = "read"
  /\ handler
  /\ keep_running' = 0
  /\ sigAt' = <<spc, si>>
  /\ ReadFailed("EINTR")
  /\ UNCHANGED <<handler, sfd, sbuf, si, pwmRet, sret, wire, portOpen,
                 enabled, sysfs, motor, echo, taken, chunks, warned>>
  /\ UNCHANGED <<capVars, convVars>>

\* SIGINT or SIGTERM at any other moment: int_handler sets keep_running = 0
\* and the interrupted code goes on (a blocked read is restarted).
Signal ==
  /\ handler
  /\ spc \notin {"exit", "killed"}
  /\ keep_running = 1
  /\ keep_running' = 0
  /\ sigAt' = <<spc, si>>
  /\ UNCHANGED <<spc, handler, sfd, sbuf, si, pwmRet, sret, wire, portOpen,
                 enabled, sysfs, motor, echo, taken, chunks, lastRead, warned>>
  /\ UNCHANGED <<capVars, convVars>>

\* SIGINT or SIGTERM before signal() was called: the default action ends the
\* process.
SignalDefault ==
  /\ ~handler
  /\ spc \notin {"idle", "exit", "killed"}
  /\ spc' = "killed"
  /\ UNCHANGED <<keep_running, handler, sfd, sbuf, si, pwmRet, sret, wire, portOpen,
                 enabled, sysfs, motor, echo, taken, chunks, lastRead, warned>>
  /\ UNCHANGED <<sigAt, capVars, convVars>>

\* if (c == 'A' || c == 'a')
IsStart_UpperOnly(c) == c = "A"
IsStart(c) == c = "A" \/ c = "a"

\* else if (c == 'B' || c == 'b')
IsStop(c) == c = "B" \/ c = "b"

\* pwm_control(state): pwm_write_file("enable", state ? "1" : "0")
EnableValue_Inverted(state) == IF state THEN 0 ELSE 1
EnableValue(state) == IF state THEN 1 ELSE 0

pwm_control(state) ==
  /\ motor' = Append(motor, state)
  /\ \E res \in EnableResults : PwmWrite("enable", EnableValue(state), res)

\* One iteration of for (i = 0; i < n; ++i): the command, then the echo; the
\* loop test after the last byte leads to while (keep_running).
Dispatch ==
  /\ spc = "for"
  /\ si < Len(sbuf)
  /\ LET c == sbuf[si + 1]
     IN  /\ IF IsStart(c) THEN pwm_control(TRUE)
            ELSE IF IsStop(c) THEN pwm_control(FALSE)
            ELSE UNCHANGED <<motor, sysfs, enabled>>
         /\ echo' = Append(echo, IF Echoable(c) THEN c ELSE <<"0x", c>>)
  /\ si' = si + 1
  /\ spc' = IF si + 1 < Len(sbuf) THEN "for" ELSE "while"
  /\ UNCHANGED <<keep_running, handler, sfd, sbuf, pwmRet, sret, wire, portOpen,
                 taken, chunks, lastRead, warned>>
  /\ UNCHANGED <<sigAt, capVars, convVars>>

\* close(fd); return 0;
CloseSerial ==
  /\ spc = "close"
  /\ portOpen' = FALSE
  /\ sret' = 0
  /\ spc' = "exit"
  /\ UNCHANGED <<keep_running, handler, sfd, sbuf, si, pwmRet, wire,
                 enabled, sysfs, motor, echo, taken, chunks, lastRead, warned>>
  /\ UNCHANGED <<sigAt, capVars, convVars>>

NextSerial ==
  \/ PwmExport \/ PwmPeriod \/ PwmDuty \/ PwmDisable
  \/ OpenSerial \/ ConfigureSerial
  \/ LoopTest \/ ReadData \/ ReadEmptyOrError \/ ReadInterrupted
  \/ Dispatch \/ CloseSerial
  \/ Signal \/ SignalDefault

SpecSerial == InitSerial /\ [][NextSerial]_vars

\* A run of either program.
SpecBoth == (Init \/ InitSerial) /\ [][Next \/ NextSerial]_vars

\* ------------------------------------------------------------------ claims

Exited == pc = "exit"
AllWaitsSucceeded == cnt["select"] = 10 /\ "select" \notin failed
LoopFailure == {"select", "dqbuf", "qbuf_loop"} \cap failed # {}

EndToEnd ==
  /\ cnt["dqbuf"] = 10
  /\ cnt["qbuf_loop"] = 9
  /\ cnt["yuyv_to_rgb"] = 1
  /\ convInfo # <<>> /\ convInfo.frame = 10
  /\ cnt["stbi_write_jpg"] = 1
  /\ encArgs = <<320, 240, 3>>

C2_Claim ==
  /\ ~dblQueue
  /\ Exited => pair # "open"

\* C3: once the k-th wait has timed out or failed, the run is over with a
\* nonzero result, the queue and dequeue calls are those of the k-1 earlier
\* iterations and no more, and the converter and the encoder were never called.
C3_WaitFailureAborts ==
  waitFailedAt # 0 =>
    /\ Exited /\ ret > 0
    /\ cnt["select"] = waitFailedAt
    /\ cnt["dqbuf"] = waitFailedAt - 1
    /\ cnt["qbuf_loop"] = waitFailedAt - 1
    /\ cnt["qbuf_init"] = 1
    /\ cnt["yuyv_to_rgb"] = 0
    /\ cnt["stbi_write_jpg"] = 0

C3_Witness == waitFailedAt = 3 /\ Exited /\ cnt["dqbuf"] = 2

\* C4 as stated: a run in which a wait, a dequeue or a re-queue of the loop
\* failed ends with a nonzero result, without conversion or encoding, and
\* with stream-off and close issued.
C4_Claim ==
  (Exited /\ LoopFailure) =>
    /\ ret > 0
    /\ cnt["yuyv_to_rgb"] = 0 /\ cnt["stbi_write_jpg"] = 0
    /\ cnt["streamoff"] = 1 /\ cnt["close"] = 1

\* C5: once a setup step has failed the run is over with a nonzero result; no
\* later setup step, no stream-off, no wait or dequeue, no conversion and no
\* encoding was or will be issued.
C5_SetupFailureAborts ==
  \A k \in 1..Len(SetupOps) :
    SetupOps[k] \in failed =>
      /\ Exited /\ ret > 0
      /\ \A j \in (k + 1)..Len(SetupOps) : cnt[SetupOps[j]] = 0
      /\ cnt["streamoff"] = 0
      /\ cnt["select"] = 0 /\ cnt["dqbuf"] = 0 /\ cnt["qbuf_loop"] = 0
      /\ cnt["yuyv_to_rgb"] = 0 /\ cnt["stbi_write_jpg"] = 0

C5_Witness == "streamon" \in failed /\ Exited /\ cnt["qbuf_init"] = 1

SetupIndex(op) == CHOOSE k \in 1..Len(SetupOps) : SetupOps[k] = op
IsSetupOp(op) == \E k \in 1..Len(SetupOps) : SetupOps[k] = op
SessionOps == {SetupOps[k] : k \in 1..Len(SetupOps)} \cup LoopOps \cup {"streamoff", "close"}

\* What must hold before a call at site op for the session order to be kept.
MayCall(op) ==
  /\ IsSetupOp(op) =>
       /\ \A o \in SessionOps : IsSetupOp(o) /\ SetupIndex(o) < SetupIndex(op)
                                   => cnt[o] = 1 /\ o \notin failed
       /\ \A o \in SessionOps : ~(IsSetupOp(o) /\ SetupIndex(o) < SetupIndex(op))
                                   => cnt[o] = 0
  /\ op \in LoopOps =>
       /\ cnt["streamon"] = 1 /\ "streamon" \notin failed
       /\ cnt["streamoff"] = 0 /\ cnt["close"] = 0
  /\ op = "dqbuf" => cnt["select"] = cnt["dqbuf"] + 1
  /\ op = "qbuf_loop" => cnt["dqbuf"] < 10 /\ cnt["qbuf_loop"] = cnt["dqbuf"] - 1
  /\ op = "streamoff" =>
       cnt["dqbuf"] = 10 /\ cnt["streamoff"] = 0 /\ cnt["close"] = 0
  /\ op = "close" => cnt["streamoff"] = 1 /\ cnt["close"] = 0

\* C6: every call keeps the session order open, set-format, request-buffers,
\* query, map, queue, stream-on, wait/dequeue loop, stream-off, close: no wait
\* or dequeue before stream-on succeeded, no re-queue after the 10th dequeue.
C6_SessionOrder ==
  [][\A op \in SessionOps : cnt'[op] > cnt[op] => MayCall(op)]_vars

C6_Witness == Exited /\ cnt["close"] = 1 /\ cnt["dqbuf"] = 10 /\ cnt["qbuf_loop"] = 9

\* C7 as stated: the converter runs only after a successful final dequeue and
\* while the buffer is not queued to the device.
C7_Claim ==
  convInfo # <<>> => (convInfo.lastDq = "ok" /\ ~convInfo.deviceOwns)

EmptyFrame == i = 10 /\ pc # "check" /\ buf.bytesused = 0
EncodeError == "stbi_write_jpg" \in failed
TornDown == cnt["streamoff"] = 1 /\ cnt["close"] = 1 /\ ret = 0

\* C8: with an empty final frame the converter and the encoder are not called
\* and the error is printed; a failing encoder's error is printed; either way
\* the run goes on to stream-off and then close, once each.
C8_EmptyOrEncodeError ==
  /\ EmptyFrame =>
       /\ cnt["yuyv_to_rgb"] = 0 /\ cnt["stbi_write_jpg"] = 0
       /\ "Error: Captured 0 bytes" \in out
       /\ pc \in {"streamoff", "close", "exit"}
  /\ EncodeError =>
       /\ "Error: Failed to write JPEG file." \in out
       /\ pc \in {"free", "streamoff", "close", "exit"}
  /\ (EmptyFrame \/ EncodeError) =>
       /\ pc = "streamoff" => cnt["streamoff"] = 0 /\ cnt["close"] = 0
       /\ pc = "close" => cnt["streamoff"] = 1 /\ cnt["close"] = 0
       /\ Exited => TornDown

C8_Witness == EncodeError /\ Exited /\ TornDown

\* C9 as stated: the converter reads only input indices 0 .. 2*W*H-1 and
\* writes the output indices 0 .. 3*W*H-1, each once, and no other.
C9_Claim ==
  /\ rd \subseteq 0..(2 * width * height - 1)
  /\ \A k \in DOMAIN wr : k >= 3 * width * height => wr[k] = 0
  /\ cpc = "done" => \A k \in 0..(3 * width * height - 1) : k \in DOMAIN wr /\ wr[k] = 1

\* o is the real number x/d truncated to an integer and saturated to 0..255.
IsSaturatedTrunc(x, d, o) ==
  /\ o \in 0..255
  /\ x < d => o = 0
  /\ x >= 255 * d => o = 255
  /\ (x >= d /\ x < 255 * d) => (d * o <= x /\ x < d * (o + 1))

\* o is one below the real number x/d, an integer in 1..255.
IsOneBelowInteger(x, d, o) == x % d = 0 /\ x >= d /\ x <= 255 * d /\ d * (o + 1) = x

\* The BT.601 values of a pixel, over 1000 (R, B) and 1000000 (G).
ExactR(y, vb) == 1000 * y + 1402 * (vb - 128)
ExactG(y, ub, vb) == 1000000 * y - 344136 * (ub - 128) - 714136 * (vb - 128)
ExactB(y, ub) == 1000 * y + 1772 * (ub - 128)

\* Group k (from 1) of the input lies wholly inside it.
WholeGroup(k) == 4 * k <= 2 * width * height

\* C10 as stated: each of the six output channels of every group is the
\* BT.601 value truncated to an integer and saturated to 0..255.
C10_Original ==
  \A k \in 1..Len(grp) :
    WholeGroup(k) =>
      LET y0 == grp[k][1]  ub == grp[k][2]  y1 == grp[k][3]  vb == grp[k][4]
          o == 6 * (k - 1)
      IN  /\ IsSaturatedTrunc(ExactR(y0, vb), 1000, rgb[o])
          /\ IsSaturatedTrunc(ExactG(y0, ub, vb), 1000000, rgb[o + 1])
          /\ IsSaturatedTrunc(ExactB(y0, ub), 1000, rgb[o + 2])
          /\ IsSaturatedTrunc(ExactR(y1, vb), 1000, rgb[o + 3])
          /\ IsSaturatedTrunc(ExactG(y1, ub, vb), 1000000, rgb[o + 4])
          /\ IsSaturatedTrunc(ExactB(y1, ub), 1000, rgb[o + 5])

\* C10 amended: every channel is the BT.601 value truncated to an integer and
\* saturated to 0..255, except G for U = 28, V = 228 and Y in 222..255: there
\* the exact G is the integer Y - 37 and the stored G is Y - 38.
C10_Saturated ==
  \A k \in 1..Len(grp) :
    WholeGroup(k) =>
      LET y0 == grp[k][1]  ub == grp[k][2]  y1 == grp[k][3]  vb == grp[k][4]
          o == 6 * (k - 1)
          GOk(y, g) == IF ub = 28 /\ vb = 228 /\ y >= 222
                         THEN g = y - 38 /\ IsOneBelowInteger(ExactG(y, ub, vb), 1000000, g)
                         ELSE IsSaturatedTrunc(ExactG(y, ub, vb), 1000000, g)
      IN  /\ IsSaturatedTrunc(ExactR(y0, vb), 1000, rgb[o])
          /\ GOk(y0, rgb[o + 1])
          /\ IsSaturatedTrunc(ExactB(y0, ub), 1000, rgb[o + 2])
          /\ IsSaturatedTrunc(ExactR(y1, vb), 1000, rgb[o + 3])
          /\ GOk(y1, rgb[o + 4])
          /\ IsSaturatedTrunc(ExactB(y1, ub), 1000, rgb[o + 5])

C10_Witness ==
  /\ cpc = "done" /\ Len(grp) >= 1
  /\ grp[1] = <<255, 255, 255, 255>>
  /\ rgb[0] = 255 /\ rgb[1] = 120 /\ rgb[2] = 255

\* C11: a group whose chroma is neutral (U = V = 128) comes out gray: the
\* three channels of its first pixel equal Y0 and those of its second pixel
\* equal Y1, for every luma 0..255.
C11_NeutralChromaGray ==
  \A k \in 1..Len(grp) :
    (WholeGroup(k) /\ grp[k][2] = 128 /\ grp[k][4] = 128) =>
      LET o == 6 * (k - 1)
      IN  /\ \A c \in 0..2 : rgb[o + c] = grp[k][1]
          /\ \A c \in 3..5 : rgb[o + c] = grp[k][3]

C11_Witness ==
  /\ cpc = "done" /\ Len(grp) >= 1
  /\ grp[1] = <<128, 128, 128, 128>>
  /\ \A c \in 0..5 : rgb[c] = 128

\* C12: input is consumed 4 bytes at a time and output produced 6 bytes at a
\* time. For every group k (from 0) the output bytes 6k..6k+2 are a function
\* of the input bytes 4k (Y0), 4k+1 (U), 4k+3 (V) alone and the bytes
\* 6k+3..6k+5 of 4k+2 (Y1), 4k+1, 4k+3 alone; the outputs written are those
\* of two pixels per group processed, and a frame of whole groups is
\* processed in 2*W*H/4 groups.
C12_StrideAndOrder ==
  /\ \A k \in 1..Len(grp) :
       WholeGroup(k) =>
         LET n == 4 * (k - 1)
             o == 6 * (k - 1)
             u == yuyv[n + 1] - 128
             v == yuyv[n + 3] - 128
         IN  /\ rgb[o]     = clamp(ChannelR(yuyv[n], v))
             /\ rgb[o + 1] = clamp(ChannelG(yuyv[n], u, v))
             /\ rgb[o + 2] = clamp(ChannelB(yuyv[n], u))
             /\ rgb[o + 3] = clamp(ChannelR(yuyv[n + 2], v))
             /\ rgb[o + 4] = clamp(ChannelG(yuyv[n + 2], u, v))
             /\ rgb[o + 5] = clamp(ChannelB(yuyv[n + 2], u))
  /\ {k \in DOMAIN wr : wr[k] > 0} = 0..(6 * Len(grp) - 1)
  /\ \A k \in DOMAIN wr : wr[k] <= 1
  /\ (cpc = "done" /\ (2 * width * height) % 4 = 0) => 4 * Len(grp) = 2 * width * height

C12_Witness ==
  /\ cpc = "done" /\ width * height = 4 /\ Len(grp) = 2
  /\ grp[1] # grp[2]
  /\ yuyv[0] # yuyv[2] /\ rgb[0] # rgb[3]
  /\ rgb[0] # rgb[6]

\* C13 as stated: whenever the capture run calls the converter, the width and
\* height it passes are the format the device applied, and the frame holds at
\* least width * height * 2 bytes, in mapped length and in bytes used.
C13_Claim ==
  convInfo # <<>> =>
    /\ convInfo.w = fmt[1] /\ convInfo.h = fmt[2]
    /\ buf.length >= convInfo.w * convInfo.h * 2
    /\ buf.bytesused >= convInfo.w * convInfo.h * 2

\* C17 as stated: on every terminating path on which the buffer was mapped,
\* the buffer is unmapped and the device handle closed before the process
\* exits; the buffer is mapped once and never mapped again.
C17_Claim ==
  /\ cnt["mmap"] <= 1
  /\ (Exited /\ cnt["mmap"] = 1 /\ "mmap" \notin failed) =>
       (buffer_start = "unmapped" /\ cnt["close"] = 1)

\* C18: provided each ioctl eventually returns something other than EINTR,
\* every capture run reaches its exit, and it waits for readiness at most 10
\* times on the way: a wait that fails or times out is not repeated.
C18_Terminates ==
  /\ <>Exited
  /\ [](cnt["select"] <= WarmupFrames)
  /\ [](waitFailedAt # 0 => cnt["select"] = waitFailedAt)

C18_Witness == Exited /\ cnt["select"] = WarmupFrames /\ nEintr >= 1 /\ ret = 0

\* The motor calls a sequence of bytes asks for: enable(true) for each 'A' or
\* 'a', enable(false) for each 'B' or 'b', in order, nothing for other bytes.
RECURSIVE MotorCalls(_)
MotorCalls(s) ==
  IF s = <<>> THEN <<>>
  ELSE LET c == Head(s)
           r == MotorCalls(Tail(s))
       IN  IF c \in {"A", "a"} THEN <<TRUE>> \o r
           ELSE IF c \in {"B", "b"} THEN <<FALSE>> \o r
           ELSE r

\* The bytes the loop body has run on so far: all bytes read but the rest of
\* the current chunk.
Dispatched == SubSeq(taken, 1, Len(taken) - Len(sbuf) + si)

\* C14: whatever the split of the input into read chunks, the motor calls
\* made are those of the bytes processed, in arrival order, and between
\* chunks and after the loop every byte received has been processed. The
\* input "xA1Bz" gives enable(true) then enable(false).
C14_CommandRouting ==
  /\ motor = MotorCalls(Dispatched)
  /\ spc \in {"while", "read", "close", "exit"} => Dispatched = taken
  /\ (spc = "exit" /\ taken = Scenario) => motor = <<TRUE, FALSE>>

C14_Witness ==
  /\ spc = "exit" /\ sret = 0
  /\ taken = Scenario /\ Len(chunks) >= 2
  /\ motor = <<TRUE, FALSE>>

\* C15 as stated: every write of the enable file comes after the one
\* configure step in which the period 1000000 and then the duty cycle 500000
\* were written successfully.
C15_Claim ==
  \A k \in 1..Len(sysfs) :
    sysfs[k].file = "enable" =>
      \E p \in 1..(k - 1), d \in 1..(k - 1) :
        /\ p < d
        /\ sysfs[p] = [file |-> "period", value |-> PWM_PERIOD_NS, res |-> "written"]
        /\ sysfs[d] = [file |-> "duty_cycle", value |-> PWM_DUTY_NS, res |-> "written"]

\* C16: the capture program exits 0 when every call succeeded and nonzero
\* when open, set-format, buffer request, query, map or the initial queue
\* failed; the serial program exits 2 exactly when the port could not be
\* opened, 3 exactly when it could not be configured, 0 when the loop was
\* left, and in each case the port is closed when main returns.
C16_ExitCodes ==
  /\ Exited =>
       /\ failed = {} => ret = 0
       /\ failed \cap {"open", "s_fmt", "reqbufs", "querybuf", "mmap", "qbuf_init"} # {}
            => ret # 0
  /\ spc = "exit" =>
       /\ sret \in {0, 2, 3}
       /\ sret = 2 <=> sfd < 0
       /\ sret = 3 <=> (sfd >= 0 /\ ~handler)
       /\ sret = 0 <=> handler
       /\ ~portOpen

C16_Witness == spc = "exit" /\ sret = 3 /\ sfd >= 0 /\ ~portOpen

\* C19: keep_running is looked at only by the loop test before each read.
\* Inside a chunk the next step is the next byte (command and echo) whatever
\* the flag, so between chunks and after the loop every byte read has been
\* processed; the loop test leaves the loop exactly when the flag is clear,
\* and after that nothing is read, echoed or sent to the motor; a read that
\* fails with EINTR or returns 0 leads to the loop test, and the only other
\* way out of the loop is a read error.
C19_FlagCheckedAtBoundary ==
  /\ [](spc \in {"while", "read", "close", "exit"} => Dispatched = taken)
  /\ [](Len(echo) = Len(Dispatched))
  /\ [][(spc = "for" /\ <<spc, si>>' # <<spc, si>>)
          => (si' = si + 1 /\ Len(echo') = Len(echo) + 1)]_vars
  /\ [][(spc = "while" /\ spc' # spc)
          => spc' = IF keep_running = 0 THEN "close" ELSE "read"]_vars
  /\ [][(spc \in {"close", "exit"}) => (UNCHANGED <<taken, motor, sysfs, echo>>)]_vars
  /\ [][(spc = "read" /\ lastRead' \in {"EINTR", "zero"}) => spc' = "while"]_vars
  /\ [][(spc' = "close" /\ spc # "close")
          => \/ spc = "while" /\ keep_running = 0
             \/ spc = "read" /\ lastRead' = "EIO"]_vars

\* The signal arrived after the first byte of a chunk of two; the second
\* byte, a command, was still processed and then the loop was left.
C19_Witness ==
  /\ sigAt = <<"for", 1>> /\ Len(sbuf) = 2
  /\ spc = "exit" /\ sret = 0
  /\ Len(chunks) = 1 /\ Len(echo) = 2 /\ Len(motor) = 2

\* Every sysfs write of the run succeeded.
WritesSucceeded == \A k \in 1..Len(sysfs) : sysfs[k].res = "written"

\* C20: while every sysfs write succeeds, once pwm_init has returned 0 the
\* PWM is enabled exactly when the last command byte processed was 'A' or
\* 'a' (disabled when there was none yet); and after the loop no motor call
\* is made, so the state at exit is the one the last command set.
C20_MotorState ==
  /\ []((WritesSucceeded /\ pwmRet = 0) =>
          LET m == MotorCalls(Dispatched)
          IN  enabled = (m # <<>> /\ m[Len(m)]))
  /\ [][(spc \in {"close", "exit"}) => (UNCHANGED <<motor, enabled>>)]_vars

C20_Witness ==
  /\ spc = "exit" /\ sret = 0 /\ WritesSucceeded /\ pwmRet = 0
  /\ taken = <<"b", "A">> /\ enabled

====
